---- MODULE Spec2Model ----
(***************************************************************************)
(* Model of model/circuit_grid_model.py: the CircuitGridModel grid store   *)
(* (set_node, get_node) and its compiler compute_circuit, which walks the  *)
(* grid column by column and appends one qiskit instruction per node.      *)
(*                                                                         *)
(* Angles are abstracted to the integers 0..MaxAngle (the code only tests  *)
(* radians == 0 and passes the value on).  The qiskit circuit is the       *)
(* sequence of its instructions, each [name, qargs, params].               *)
(***************************************************************************)
EXTENDS Integers, Sequences, FiniteSets, TLC

\* ------------------------------------------------------------------ bounds
MaxWires == 2
MaxColumns == 2
MaxSets == 2
MaxAngle == 2
GateWires == 3

VARIABLES max_wires, max_columns, nodes, nsets, last

vars == <<max_wires, max_columns, nodes, nsets, last>>

\* ------------------------------------------------------------- node types
\* The constants of model.circuit_node_types compared against in
\* compute_circuit, as distinct symbols.
NodeTypes == {"IDEN", "X", "Y", "Z", "S", "SDG", "T", "TDG", "H", "SWAP", "B"}

\* A node type value that none of the branches of compute_circuit matches.
OtherTypes == {"OTHER"}

\* The value of an empty cell of the numpy object array.
None == [none |-> TRUE]

CircuitGridNode(node_type, radians, ctrl_a, ctrl_b, swap) ==
    [node_type |-> node_type, radians |-> radians, ctrl_a |-> ctrl_a,
     ctrl_b |-> ctrl_b, swap |-> swap]

\* ---------------------------------------------------------- numpy indexing
\* a[i] on an axis of length n: negative i counts from the end, anything
\* outside -n..n-1 raises IndexError.
NpValid(i, n) == -n <= i /\ i < n

NpIndex(i, n) == IF i < 0 THEN n + i ELSE i

\* A keyword argument of a call, or the default of the signature.
Arg(kw, name, default) == IF name \in DOMAIN kw THEN kw[name] ELSE default

\* ------------------------------------------------------------------- Init
EmptyGrid(w, c) == [i \in 0..(w - 1) |-> [j \in 0..(c - 1) |-> None]]

Construct(w, c) ==
    /\ max_wires = w
    /\ max_columns = c
    /\ nodes = EmptyGrid(w, c)
    /\ nsets = 0
    /\ last = [op |-> "init"]

Init == \E w \in 1..MaxWires, c \in 1..MaxColumns : Construct(w, c)

\* --------------------------------------------------------------- set_node
\* set_node that keeps the node of a cell that is not empty.
set_node_Protected(wire_num, column_num, node_type, kw) ==
    LET node == CircuitGridNode(node_type,
                                Arg(kw, "radians", 0),
                                Arg(kw, "ctrl_a", -1),
                                Arg(kw, "ctrl_b", -1),
                                Arg(kw, "swap", -1))
        call == [op |-> "set_node", wire |-> wire_num, column |-> column_num,
                 node_type |-> node_type, kw |-> kw]
    IN  /\ nsets' = nsets + 1
        /\ UNCHANGED <<max_wires, max_columns>>
        /\ IF NpValid(wire_num, max_wires) /\ NpValid(column_num, max_columns)
           THEN LET w == NpIndex(wire_num, max_wires)
                    c == NpIndex(column_num, max_columns)
                IN  /\ nodes' = IF nodes[w][c] = None
                                THEN [nodes EXCEPT ![w][c] = node]
                                ELSE nodes
                    /\ last' = call @@ [err |-> "none", old |-> nodes[w][c]]
           ELSE /\ nodes' = nodes
                /\ last' = call @@ [err |-> "IndexError", old |-> None]

\* self.nodes[wire_num][column_num] = CircuitGridNode(node_type, radians,
\* ctrl_a, ctrl_b, swap), the arguments left out taking their defaults.  The
\* call is recorded in last with the exception it raised and the node the
\* cell held before.
set_node(wire_num, column_num, node_type, kw) ==
    LET node == CircuitGridNode(node_type,
                                Arg(kw, "radians", 0),
                                Arg(kw, "ctrl_a", -1),
                                Arg(kw, "ctrl_b", -1),
                                Arg(kw, "swap", -1))
        call == [op |-> "set_node", wire |-> wire_num, column |-> column_num,
                 node_type |-> node_type, kw |-> kw]
    IN  /\ nsets' = nsets + 1
        /\ UNCHANGED <<max_wires, max_columns>>
        /\ IF NpValid(wire_num, max_wires) /\ NpValid(column_num, max_columns)
           THEN LET w == NpIndex(wire_num, max_wires)
                    c == NpIndex(column_num, max_columns)
                IN  /\ nodes' = [nodes EXCEPT ![w][c] = node]
                    /\ last' = call @@ [err |-> "none", old |-> nodes[w][c]]
           ELSE /\ nodes' = nodes
                /\ last' = call @@ [err |-> "IndexError", old |-> None]

\* --------------------------------------------------------------- get_node
get_node(wire_num, column_num) ==
    /\ UNCHANGED <<max_wires, max_columns, nodes, nsets>>
    /\ IF NpValid(wire_num, max_wires) /\ NpValid(column_num, max_columns)
       THEN last' = [op |-> "get_node", wire |-> wire_num, column |-> column_num,
                     err |-> "none",
                     ret |-> nodes[NpIndex(wire_num, max_wires)]
                                  [NpIndex(column_num, max_columns)]]
       ELSE last' = [op |-> "get_node", wire |-> wire_num, column |-> column_num,
                     err |-> "IndexError", ret |-> None]

\* -------------------------------------------------------- compute_circuit
\* qr[i] on the QuantumRegister of max_wires qubits.  An index past the end
\* raises; whether a negative index raises or counts from the end depends on
\* the installed qiskit, so it is an input of the call (wraps).
QrValid(i, wraps) == IF i < 0 THEN wraps /\ -max_wires <= i ELSE i < max_wires

QrLane(i) == IF i < 0 THEN max_wires + i ELSE i

Raise(st, e) == [err |-> e, qc |-> st.qc]

\* The circuit's append of one instruction, which rejects a repeated qubit.
Instruction(st, name, params, qargs) ==
    IF \E i, j \in 1..Len(qargs) : i < j /\ qargs[i] = qargs[j]
    THEN Raise(st, "CircuitError")
    ELSE [err |-> "none",
          qc |-> Append(st.qc, [name |-> name, qargs |-> qargs,
                                params |-> params])]

\* Gate with the identity gate left out of the circuit.
Gate_NoIdentity(st, name, params, idx, wraps) ==
    IF \E i \in 1..Len(idx) : ~QrValid(idx[i], wraps)
    THEN Raise(st, "IndexError")
    ELSE IF name = "iden"
         THEN st
         ELSE Instruction(st, name, params, [i \in 1..Len(idx) |-> QrLane(idx[i])])

\* Gate with the qubits passed target first, controls after.
Gate_TargetFirst(st, name, params, idx, wraps) ==
    IF \E i \in 1..Len(idx) : ~QrValid(idx[i], wraps)
    THEN Raise(st, "IndexError")
    ELSE Instruction(st, name, params,
                     [i \in 1..Len(idx) |-> QrLane(idx[Len(idx) + 1 - i])])

\* Gate with the angle reduced modulo a full turn (two units).
Gate_ModAngle(st, name, params, idx, wraps) ==
    IF \E i \in 1..Len(idx) : ~QrValid(idx[i], wraps)
    THEN Raise(st, "IndexError")
    ELSE Instruction(st, name, [i \in 1..Len(params) |-> params[i] % 2],
                     [i \in 1..Len(idx) |-> QrLane(idx[i])])

\* qc.<name>(params, qr[idx[1]], ..., qr[idx[n]]): the register lookups, then
\* the append.
Gate(st, name, params, idx, wraps) ==
    IF \E i \in 1..Len(idx) : ~QrValid(idx[i], wraps)
    THEN Raise(st, "IndexError")
    ELSE Instruction(st, name, params, [i \in 1..Len(idx) |-> QrLane(idx[i])])

\* Barrier on the first qubit of the register alone.
Barrier_OneWire(st) ==
    [err |-> "none",
     qc |-> Append(st.qc, [name |-> "barrier", qargs |-> <<0>>, params |-> <<>>])]

\* qc.barrier(qr): one barrier over every qubit of the register.
Barrier(st) ==
    [err |-> "none",
     qc |-> Append(st.qc, [name |-> "barrier",
                           qargs |-> [i \in 1..max_wires |-> i - 1],
                           params |-> <<>>])]

\* The body of the inner loop for one occupied cell.
Resolve(st, node, wire_num, wraps) ==
    CASE node.node_type = "IDEN" -> Gate(st, "iden", <<>>, <<wire_num>>, wraps)
      [] node.node_type = "X" ->
            IF node.radians = 0
            THEN IF node.ctrl_a # -1
                 THEN IF node.ctrl_b # -1
                      THEN Gate(st, "ccx", <<>>,
                                <<node.ctrl_a, node.ctrl_b, wire_num>>, wraps)
                      ELSE Gate(st, "cx", <<>>, <<node.ctrl_a, wire_num>>, wraps)
                 ELSE Gate(st, "x", <<>>, <<wire_num>>, wraps)
            ELSE Gate(st, "rx", <<node.radians>>, <<wire_num>>, wraps)
      [] node.node_type = "Y" ->
            IF node.radians = 0
            THEN IF node.ctrl_a # -1
                 THEN Gate(st, "cy", <<>>, <<node.ctrl_a, wire_num>>, wraps)
                 ELSE Gate(st, "y", <<>>, <<wire_num>>, wraps)
            ELSE Gate(st, "ry", <<node.radians>>, <<wire_num>>, wraps)
      [] node.node_type = "Z" ->
            IF node.radians = 0
            THEN IF node.ctrl_a # -1
                 THEN Gate(st, "cz", <<>>, <<node.ctrl_a, wire_num>>, wraps)
                 ELSE Gate(st, "z", <<>>, <<wire_num>>, wraps)
            ELSE IF node.ctrl_a # -1
                 THEN Gate(st, "crz", <<node.radians>>,
                           <<node.ctrl_a, wire_num>>, wraps)
                 ELSE Gate(st, "rz", <<node.radians>>, <<wire_num>>, wraps)
      [] node.node_type = "S" -> Gate(st, "s", <<>>, <<wire_num>>, wraps)
      [] node.node_type = "SDG" -> Gate(st, "sdg", <<>>, <<wire_num>>, wraps)
      [] node.node_type = "T" -> Gate(st, "t", <<>>, <<wire_num>>, wraps)
      [] node.node_type = "TDG" -> Gate(st, "tdg", <<>>, <<wire_num>>, wraps)
      [] node.node_type = "H" ->
            IF node.ctrl_a # -1
            THEN Gate(st, "ch", <<>>, <<node.ctrl_a, wire_num>>, wraps)
            ELSE Gate(st, "h", <<>>, <<wire_num>>, wraps)
      [] node.node_type = "SWAP" ->
            IF node.ctrl_a # -1
            THEN Gate(st, "cswap", <<>>,
                      <<node.ctrl_a, wire_num, node.swap>>, wraps)
            ELSE Gate(st, "swap", <<>>, <<wire_num, node.swap>>, wraps)
      [] node.node_type = "B" -> Barrier(st)
      [] OTHER -> st

\* if node: ...
Visit(st, column_num, wire_num, wraps) ==
    LET node == nodes[wire_num][column_num]
    IN  IF node # None THEN Resolve(st, node, wire_num, wraps) ELSE st

RECURSIVE WireLoop(_, _, _, _)
\* for wire_num in range(self.max_wires), from wire_num on; an exception
\* leaves the loops.
WireLoop(st, column_num, wire_num, wraps) ==
    IF wire_num >= max_wires \/ st.err # "none"
    THEN st
    ELSE WireLoop(Visit(st, column_num, wire_num, wraps),
                  column_num, wire_num + 1, wraps)

RECURSIVE ColumnLoop(_, _, _)
\* for column_num in range(self.max_columns), from column_num on.
ColumnLoop(st, column_num, wraps) ==
    IF column_num >= max_columns \/ st.err # "none"
    THEN st
    ELSE ColumnLoop(WireLoop(st, column_num, 0, wraps), column_num + 1, wraps)

RECURSIVE WireMajorLoop(_, _, _)
\* The cells visited wire by wire, the columns of a wire in turn.
WireMajorLoop(st, k, wraps) ==
    IF k >= max_wires * max_columns \/ st.err # "none"
    THEN st
    ELSE WireMajorLoop(Visit(st, k % max_columns, k \div max_columns, wraps),
                       k + 1, wraps)

\* compute_circuit with the two loops exchanged.
Circuit_WireMajor(wraps) ==
    LET st == WireMajorLoop([err |-> "none", qc |-> <<>>], 0, wraps)
    IN  IF st.err = "none" THEN st ELSE [err |-> st.err, qc |-> <<>>]

\* The circuit compute_circuit returns, or the exception that leaves it (no
\* circuit is returned then).
Circuit(wraps) ==
    LET st == ColumnLoop([err |-> "none", qc |-> <<>>], 0, wraps)
    IN  IF st.err = "none" THEN st ELSE [err |-> st.err, qc |-> <<>>]

compute_circuit(wraps) ==
    /\ UNCHANGED <<max_wires, max_columns, nodes, nsets>>
    /\ last' = [op |-> "compute_circuit"] @@ Circuit(wraps)

\* ----------------------------------------------------------- the callers
Angles == 0..MaxAngle

\* The editor placing nodes on the grid: every node type, with the defaults
\* (X with a control on wire 0).
GridCalls ==
    {<<t, <<>>>> : t \in (NodeTypes \cup OtherTypes) \ {"X"}}
    \cup {<<"X", [ctrl_a |-> 0]>>}

SetNode ==
    /\ nsets < MaxSets
    /\ \E w \in 0..(max_wires - 1), c \in 0..(max_columns - 1), call \in GridCalls :
          set_node(w, c, call[1], call[2])

ComputeCircuit == \E wraps \in BOOLEAN : compute_circuit(wraps)

Next == SetNode \/ ComputeCircuit

Spec == Init /\ [][Next]_vars

\* The grid store alone, called with coordinates inside and outside the grid
\* and with some or all of the optional arguments left out.
StoreCalls ==
    {<<"X", <<>>>>,
     <<"X", [radians |-> 1, ctrl_a |-> 1, ctrl_b |-> 0, swap |-> 0]>>,
     <<"H", [ctrl_a |-> 0]>>,
     <<"SWAP", [swap |-> 1]>>}

StoreSet ==
    /\ nsets < MaxSets
    /\ \E w \in -1..max_wires, c \in -1..max_columns, call \in StoreCalls :
          set_node(w, c, call[1], call[2])

StoreGet == \E w \in -1..max_wires, c \in -1..max_columns : get_node(w, c)

NextStore == StoreSet \/ StoreGet \/ ComputeCircuit

SpecStore == Init /\ [][NextStore]_vars

\* One node of any type and any combination of the optional fields, placed
\* on an empty one-column grid and compiled.
InitGate == \E w \in 1..GateWires : Construct(w, 1)

PlaceNode ==
    /\ nsets = 0
    /\ \E w \in 0..(max_wires - 1), t \in NodeTypes \cup OtherTypes, r \in Angles,
          a \in -1..max_wires, b \in -1..max_wires, s \in -1..max_wires :
          set_node(w, 0, t, [radians |-> r, ctrl_a |-> a, ctrl_b |-> b, swap |-> s])

NextGate == PlaceNode \/ ComputeCircuit

SpecGate == InitGate /\ [][NextGate]_vars

\* =================================================================== claims
Cells == (0..(max_wires - 1)) \X (0..(max_columns - 1))

Occupied(cell) == nodes[cell[1]][cell[2]] # None

\* The occupied cells whose node type one of the branches matches.
Emitting(cell) == Occupied(cell) /\ nodes[cell[1]][cell[2]].node_type \in NodeTypes

\* Column-major order with ascending wire inside a column.
Before(x, y) == x[2] < y[2] \/ (x[2] = y[2] /\ x[1] < y[1])

\* The place of a cell among the cells that produce an operation.
Pos(cell) == Cardinality({x \in Cells : Emitting(x) /\ (Before(x, cell) \/ x = cell)})

Returned == last.op = "compute_circuit" /\ last.err = "none"

InGrid(w, c) == 0 <= w /\ w < max_wires /\ 0 <= c /\ c < max_columns

\* The instruction names each node type can compile to.
OpNames(t) ==
    CASE t = "IDEN" -> {"iden"}
      [] t = "X" -> {"x", "cx", "ccx", "rx"}
      [] t = "Y" -> {"y", "cy", "ry"}
      [] t = "Z" -> {"z", "cz", "crz", "rz"}
      [] t = "S" -> {"s"}
      [] t = "SDG" -> {"sdg"}
      [] t = "T" -> {"t"}
      [] t = "TDG" -> {"tdg"}
      [] t = "H" -> {"h", "ch"}
      [] t = "SWAP" -> {"swap", "cswap"}
      [] t = "B" -> {"barrier"}
      [] OTHER -> {}

\* op is an operation of the node in cell: of its gate family, on its wire.
IsOpOf(op, cell) ==
    /\ op.name \in OpNames(nodes[cell[1]][cell[2]].node_type)
    /\ CASE op.name = "barrier" -> TRUE
         [] op.name \in {"swap", "cswap"} -> op.qargs[Len(op.qargs) - 1] = cell[1]
         [] OTHER -> op.qargs[Len(op.qargs)] = cell[1]

Op(name, qargs, params) == [name |-> name, qargs |-> qargs, params |-> params]

\* C1: in the returned circuit the operation of an earlier column comes
\* before the operation of a later column, and inside a column the operation
\* of a lower wire comes before that of a higher wire: the operations are in
\* column-major order of their cells, none moved.
C1_ColumnMajorOrder ==
    Returned =>
        \A x \in Cells, y \in Cells :
            (Emitting(x) /\ Emitting(y) /\ Before(x, y)) =>
                /\ Pos(x) < Pos(y)
                /\ Pos(y) <= Len(last.qc)
                /\ IsOpOf(last.qc[Pos(x)], x)
                /\ IsOpOf(last.qc[Pos(y)], y)

\* A circuit was returned for a grid with a node on wire 1 of column 0 and a
\* node of another type on wire 0 of column 1.
C1_Witness ==
    /\ Returned
    /\ max_wires >= 2 /\ max_columns >= 2
    /\ Emitting(<<1, 0>>) /\ Emitting(<<0, 1>>)
    /\ nodes[1][0].node_type # nodes[0][1].node_type

C3_OutOfBoundsRejected ==
    [][(nsets' = nsets + 1 /\ ~InGrid(last'.wire, last'.column)) =>
           (last'.err = "IndexError" /\ nodes' = nodes)]_vars

\* C4: compute_circuit on a grid with a node of an unrecognized kind raises
\* and returns no circuit.
C4_UnknownKindIsFatal ==
    (last.op = "compute_circuit"
        /\ \E x \in Cells : Occupied(x) /\ ~Emitting(x)) =>
        last.err # "none"

\* ctrl_b without ctrl_a, or a control on the node's own wire.
Malformed(node, wire_num) ==
    \/ node.ctrl_b # -1 /\ node.ctrl_a = -1
    \/ node.ctrl_a = wire_num
    \/ node.ctrl_b = wire_num

\* C5: no compute_circuit of a grid holding a structurally invalid node (of
\* a recognized kind) returns a circuit.
C5_MalformedNodeIsFatal ==
    (last.op = "compute_circuit"
        /\ \E x \in Cells : Emitting(x) /\ Malformed(nodes[x[1]][x[2]], x[1])) =>
        last.err # "none"

\* The node a set_node call describes: the fields given, the defaults for
\* the fields left out.
Described(call) ==
    [node_type |-> call.node_type,
     radians |-> IF "radians" \in DOMAIN call.kw THEN call.kw.radians ELSE 0,
     ctrl_a |-> IF "ctrl_a" \in DOMAIN call.kw THEN call.kw.ctrl_a ELSE -1,
     ctrl_b |-> IF "ctrl_b" \in DOMAIN call.kw THEN call.kw.ctrl_b ELSE -1,
     swap |-> IF "swap" \in DOMAIN call.kw THEN call.kw.swap ELSE -1]

\* C6: after a set_node on an in-grid cell, whatever the cell held before,
\* the cell holds the node the call describes; a get_node of the cell that
\* follows returns that node, and a compute_circuit that follows emits for
\* the cell the operation that node resolves to, one operation per node.
C6_SetReplacesNode ==
    [][(last.op = "set_node" /\ last.err = "none"
            /\ InGrid(last.wire, last.column)) =>
        LET cell == <<last.wire, last.column>>
            n2 == Described(last)
        IN  /\ nodes[cell[1]][cell[2]] = n2
            /\ (last'.op = "get_node" /\ last'.wire = cell[1]
                    /\ last'.column = cell[2]) =>
                   (last'.err = "none" /\ last'.ret = n2)
            /\ (last'.op = "compute_circuit" /\ last'.err = "none") =>
                   /\ Len(last'.qc) = Cardinality({x \in Cells : Emitting(x)})
                   /\ \E wraps \in BOOLEAN :
                         LET r == Resolve([err |-> "none", qc |-> <<>>],
                                          n2, cell[1], wraps)
                         IN  /\ r.err = "none"
                             /\ last'.qc[Pos(cell)] = r.qc[1]]_vars

\* A set_node has replaced a node that had a rotation and controls by one
\* described without them, and the cell holds the defaults.
C6_Witness ==
    /\ last.op = "set_node" /\ last.err = "none"
    /\ InGrid(last.wire, last.column)
    /\ last.old # None
    /\ last.old.radians # 0 /\ last.old.ctrl_a # -1 /\ last.old.ctrl_b # -1
    /\ DOMAIN last.kw = {}
    /\ nodes[last.wire][last.column].radians = 0
    /\ nodes[last.wire][last.column].ctrl_a = -1

\* C7: an X node on wire w compiles to x on [w] without rotation and
\* controls, to cx on [a, w] with ctrl_a alone, to one ccx on [a, b, w] with
\* both controls, and with a rotation to rx(radians) on [w] whatever the
\* controls.
C7_XVariants ==
    Returned =>
        \A x \in Cells :
            (Emitting(x) /\ nodes[x[1]][x[2]].node_type = "X") =>
                LET n == nodes[x[1]][x[2]]
                    w == x[1]
                    op == last.qc[Pos(x)]
                IN  /\ (n.radians = 0 /\ n.ctrl_a = -1 /\ n.ctrl_b = -1) =>
                            op = Op("x", <<w>>, <<>>)
                    /\ (n.radians = 0 /\ n.ctrl_a # -1 /\ n.ctrl_b = -1) =>
                            op = Op("cx", <<n.ctrl_a, w>>, <<>>)
                    /\ (n.radians = 0 /\ n.ctrl_a # -1 /\ n.ctrl_b # -1) =>
                            op = Op("ccx", <<n.ctrl_a, n.ctrl_b, w>>, <<>>)
                    /\ n.radians # 0 => op = Op("rx", <<w>>, <<n.radians>>)

\* A circuit was returned for an X node with both controls and no rotation.
C7_Witness ==
    /\ Returned
    /\ \E x \in Cells :
          /\ Emitting(x)
          /\ nodes[x[1]][x[2]].node_type = "X"
          /\ nodes[x[1]][x[2]].radians = 0
          /\ nodes[x[1]][x[2]].ctrl_a # -1
          /\ nodes[x[1]][x[2]].ctrl_b # -1
          /\ nodes[x[1]][x[2]].ctrl_a > nodes[x[1]][x[2]].ctrl_b

\* C8: a Z node on wire w with a rotation compiles to crz(radians) on [a, w]
\* when ctrl_a is set and to rz(radians) on [w] when it is not, the angle
\* unchanged; ctrl_b has no part in the operation of a Z node.
C8_ZRotation ==
    Returned =>
        \A x \in Cells :
            (Emitting(x) /\ nodes[x[1]][x[2]].node_type = "Z") =>
                LET n == nodes[x[1]][x[2]]
                    w == x[1]
                    op == last.qc[Pos(x)]
                IN  /\ (n.radians # 0 /\ n.ctrl_a # -1) =>
                            op = Op("crz", <<n.ctrl_a, w>>, <<n.radians>>)
                    /\ (n.radians # 0 /\ n.ctrl_a = -1) =>
                            op = Op("rz", <<w>>, <<n.radians>>)
                    /\ (n.radians = 0 /\ n.ctrl_a # -1) =>
                            op = Op("cz", <<n.ctrl_a, w>>, <<>>)
                    /\ (n.radians = 0 /\ n.ctrl_a = -1) =>
                            op = Op("z", <<w>>, <<>>)

\* A circuit was returned for a Z node with the largest angle, ctrl_a and
\* ctrl_b set.
C8_Witness ==
    /\ Returned
    /\ \E x \in Cells :
          /\ Emitting(x)
          /\ nodes[x[1]][x[2]].node_type = "Z"
          /\ nodes[x[1]][x[2]].radians = MaxAngle
          /\ nodes[x[1]][x[2]].ctrl_a # -1
          /\ nodes[x[1]][x[2]].ctrl_b # -1

\* C9: every compute_circuit of a grid with a SWAP node on wire w returns a
\* circuit in which the node is swap on [w, k] without ctrl_a and cswap on
\* [a, w, k] with it, k being the node's swap field, a wire of the grid other
\* than w.
C9_SwapPartnerInGrid ==
    last.op = "compute_circuit" =>
        \A x \in Cells :
            (Emitting(x) /\ nodes[x[1]][x[2]].node_type = "SWAP") =>
                LET n == nodes[x[1]][x[2]]
                    w == x[1]
                IN  /\ last.err = "none"
                    /\ n.swap \in 0..(max_wires - 1)
                    /\ n.swap # w
                    /\ last.qc[Pos(x)] =
                           IF n.ctrl_a = -1
                           THEN Op("swap", <<w, n.swap>>, <<>>)
                           ELSE Op("cswap", <<n.ctrl_a, w, n.swap>>, <<>>)

\* C10: every B node compiles to one barrier whose qubits are all the wires
\* of the grid, whatever wire it is on, and the circuit has as many barriers
\* as the grid has B nodes.
C10_BarrierAllWires ==
    Returned =>
        /\ \A x \in Cells :
              (Emitting(x) /\ nodes[x[1]][x[2]].node_type = "B") =>
                  LET op == last.qc[Pos(x)]
                  IN  /\ op.name = "barrier"
                      /\ Len(op.qargs) = max_wires
                      /\ {op.qargs[i] : i \in 1..Len(op.qargs)} = 0..(max_wires - 1)
        /\ Cardinality({i \in 1..Len(last.qc) : last.qc[i].name = "barrier"})
              = Cardinality({x \in Cells :
                                Emitting(x) /\ nodes[x[1]][x[2]].node_type = "B"})

\* A circuit was returned for a grid with B nodes on wires 0 and 1 of one
\* column.
C10_Witness ==
    /\ Returned
    /\ max_wires >= 2
    /\ \E c \in 0..(max_columns - 1) :
          /\ Emitting(<<0, c>>) /\ nodes[0][c].node_type = "B"
          /\ Emitting(<<1, c>>) /\ nodes[1][c].node_type = "B"

====
